---- MODULE Spec2Model ----
(***************************************************************************)
(* Model of auto_download_image.py: the GoogleDriveDownloaderGUI form, its *)
(* log panel fed through root.after, the worker threads that run           *)
(* google_drive_bulk_download, and the fix_google_drive_url rewrite.       *)
(*                                                                         *)
(* Text that the program inspects character by character (URLs, lines of   *)
(* the links file) is a sequence of one-character strings.  Paths, which   *)
(* the program only hands to the operating system, are plain strings.      *)
(* A character that a TLA+ string cannot hold is written as its Python     *)
(* escape: "\\x0b" is the vertical tab, "\\u2003" the em space.            *)
(* What the file system and gdown.download answer is chosen afresh at each *)
(* call.  A worker step is one statement that reads or writes state shared *)
(* with the other threads or the event loop, together with the             *)
(* thread-local code around it.                                            *)
(***************************************************************************)
EXTENDS Integers, Sequences, FiniteSets, TLC

VARIABLES
    links_file_path,        \* StringVar bound to the "Links File" entry
    output_directory_path,  \* StringVar bound to the "Output Directory" entry
    log_text,               \* lines held by the Text widget (the log panel)
    after_queue,            \* update_log callbacks posted with root.after(0, ..)
    dialog,                 \* TRUE while the showerror modal dialog is open
    cwd,                    \* the process working directory (os.chdir)
    thread,                 \* the worker threads created by start_download
    steps,                  \* statements executed so far by the worker threads
    url_in,                 \* argument of a direct call of fix_google_drive_url
    url_out                 \* its result

vars == <<links_file_path, output_directory_path, log_text, after_queue,
          dialog, cwd, thread, steps, url_in, url_out>>

gui_vars == <<links_file_path, output_directory_path, log_text, after_queue,
              dialog, cwd, thread, steps>>

(***************************************************************************)
(* Bounds                                                                  *)
(***************************************************************************)
\* number of worker threads start_download may create in one behaviour
MaxStarts == 2
\* number of threads started plus steps the worker threads take, all
\* together, in one behaviour
MaxSteps == 12
\* number of segments concatenated to build an argument of the rewrite
MaxSegs == 4

Threads == 1 .. MaxStarts

(***************************************************************************)
(* Text                                                                    *)
(***************************************************************************)
NoText == << >>

DriveHost == <<"d", "r", "i", "v", "e", ".", "g", "o", "o", "g", "l", "e", ".", "c", "o", "m">>
FileD == <<"/", "f", "i", "l", "e", "/", "d", "/">>
UcId == <<"/", "u", "c", "?", "i", "d", "=">>
View == <<"/", "v", "i", "e", "w">>

\* str.__contains__: sub occurs in s as a contiguous run of characters
Contains(s, sub) ==
    \E k \in 1 .. (Len(s) - Len(sub) + 1) : SubSeq(s, k, k + Len(sub) - 1) = sub

\* str.replace(old, new): every non-overlapping occurrence, leftmost first
RECURSIVE Replace(_, _, _)
Replace(s, old, new) ==
    IF Len(s) < Len(old) THEN s
    ELSE IF SubSeq(s, 1, Len(old)) = old
         THEN new \o Replace(SubSeq(s, Len(old) + 1, Len(s)), old, new)
         ELSE <<Head(s)>> \o Replace(Tail(s), old, new)

\* the characters str.strip() removes: those for which str.isspace() holds
Whitespace ==
    {"\t", "\n", "\\x0b", "\f", "\r", "\\x1c", "\\x1d", "\\x1e", "\\x1f", " ",
     "\\x85", "\\xa0", "\\u1680", "\\u2000", "\\u2001", "\\u2002", "\\u2003",
     "\\u2004", "\\u2005", "\\u2006", "\\u2007", "\\u2008", "\\u2009",
     "\\u200a", "\\u2028", "\\u2029", "\\u202f", "\\u205f", "\\u3000"}

RECURSIVE LStrip(_)
LStrip(s) ==
    IF s # NoText /\ Head(s) \in Whitespace THEN LStrip(Tail(s)) ELSE s

RECURSIVE RStrip(_)
RStrip(s) ==
    IF s # NoText /\ s[Len(s)] \in Whitespace
    THEN RStrip(SubSeq(s, 1, Len(s) - 1)) ELSE s

\* str.strip()
Strip(s) == RStrip(LStrip(s))

fix_google_drive_url(url) ==
    IF Contains(url, DriveHost)
    THEN Replace(Replace(url, FileD, UcId), View, NoText)
    ELSE url

(***************************************************************************)
(* The environment: file system and download collaborator                  *)
(***************************************************************************)
\* directory of the script (or sys._MEIPASS in a frozen build)
application_path == "/app"

RawDriveLine == <<" ", " ", "h", "t", "t", "p", "s", ":", "/", "/", "d", "r", "i", "v", "e", ".", "g", "o", "o", "g", "l", "e", ".", "c", "o", "m", "/", "f", "i", "l", "e", "/", "d", "/", "A", "/", "v", "i", "e", "w", "\n">>
RawBlankLine == <<" ", "\f", "\\xa0", "\n">>
RawPlainLine == <<"x", ".", "c", "o", "/", "a", "\n">>

\* what readlines() can yield for the links file (the file is outside the
\* program and may change at any time)
FileContents ==
    { <<RawDriveLine, RawBlankLine, RawPlainLine>>,
      <<RawPlainLine>>,
      <<RawBlankLine, <<"\n">> >> }

\* the outcomes of open(..) and readlines(): the lines, or an IOError or
\* UnicodeDecodeError
ReadOutcomes ==
    {[error |-> "", lines |-> c] : c \in FileContents}
        \cup {[error |-> e, lines |-> << >>] : e \in {"IOError", "UnicodeDecodeError"}}

\* what the user can put in the links-file entry
LinksChoices == {"", "/d/links.txt"}

\* what the user can put in the output-directory entry
OutputChoices == {"", "/out"}

\* what gdown.download can do: return, or raise one of these classes
NoException == "none"
ExceptionBases ==
    [c \in {"MissingSchema", "ConnectionError", "FileURLRetrievalError"} |->
        CASE c = "MissingSchema" -> {"MissingSchema", "RequestException", "Exception"}
          [] c = "ConnectionError" -> {"ConnectionError", "RequestException", "Exception"}
          [] c = "FileURLRetrievalError" -> {"FileURLRetrievalError", "Exception"}]

DownloadOutcomes == {NoException} \cup DOMAIN ExceptionBases

\* isinstance(e, cls), as an except clause tests it
IsInstance(e, cls) == e # NoException /\ cls \in ExceptionBases[e]

(***************************************************************************)
(* Log entries                                                             *)
(***************************************************************************)
\* the text of a message: a fixed phrase and the values formatted into it
Message(text, i, n, url, path, err) ==
    [text |-> text, i |-> i, n |-> n, url |-> url, path |-> path, err |-> err]

MsgNoFile(p) == Message("The file does not exist!", 0, 0, NoText, p, "")
MsgOutputDir(p, e) == Message("Failed to set output directory", 0, 0, NoText, p, e)
MsgReadFailed(p, e) == Message("Failed to read file", 0, 0, NoText, p, e)
MsgNoUrls == Message("No valid URLs found in the file!", 0, 0, NoText, "", "")
MsgStarted == Message("Started downloading process", 0, 0, NoText, "", "")
MsgDownloading(i, n, u) == Message("Downloading", i, n, u, "", "")
MsgCompleted == Message("Download completed successfully", 0, 0, NoText, "", "")
MsgInvalidUrl(u) == Message("Invalid URL format", 0, 0, u, "", "")
MsgNetwork(u, e) == Message("Network error while downloading", 0, 0, u, "", e)
MsgUnexpected(u, e) == Message("Unexpected error while downloading", 0, 0, u, "", e)
MsgFinished == Message("Finished downloading process", 0, 0, NoText, "", "")

\* one call of log_message: the closure update_log captures message and level
LogCall(message, level) == [message |-> message, level |-> level]

\* the log_message calls of google_drive_bulk_download
CallNoFile(p) == LogCall(MsgNoFile(p), "ERROR")
CallOutputDir(p, e) == LogCall(MsgOutputDir(p, e), "ERROR")
CallReadFailed(p, e) == LogCall(MsgReadFailed(p, e), "ERROR")

CallNoUrls == LogCall(MsgNoUrls, "WARNING")
CallStarted == LogCall(MsgStarted, "INFO")
CallDownloading(i, n, u) == LogCall(MsgDownloading(i, n, u), "INFO")
CallCompleted == LogCall(MsgCompleted, "INFO")
CallInvalidUrl(u) == LogCall(MsgInvalidUrl(u), "ERROR")
CallNetwork(u, e) == LogCall(MsgNetwork(u, e), "ERROR")
CallUnexpected(u, e) == LogCall(MsgUnexpected(u, e), "ERROR")
CallFinished == LogCall(MsgFinished, "INFO")

\* levels.get(level, 'INFO') and the f-string of update_log
formatted_message(call) ==
    [level |-> IF call.level \in {"INFO", "ERROR", "WARNING"}
               THEN call.level ELSE "INFO",
     message |-> call.message]

\* OutcomeLog with the RequestException clause ahead of the MissingSchema one
OutcomeLog_NetworkFirst(e, download_url) ==
    IF e = NoException THEN CallCompleted
    ELSE IF IsInstance(e, "RequestException") THEN CallNetwork(download_url, e)
    ELSE IF IsInstance(e, "MissingSchema") THEN CallInvalidUrl(download_url)
    ELSE CallUnexpected(download_url, e)

\* the except chain of the download loop, first matching clause wins
OutcomeLog(e, download_url) ==
    IF e = NoException THEN CallCompleted
    ELSE IF IsInstance(e, "MissingSchema") THEN CallInvalidUrl(download_url)
    ELSE IF IsInstance(e, "RequestException") THEN CallNetwork(download_url, e)
    ELSE CallUnexpected(download_url, e)

\* CleanLines without the "if line.strip()" filter
CleanLines_KeepBlank(lines) ==
    [k \in 1 .. Len(lines) |-> Strip(lines[k])]

\* [line.strip() for line in file.readlines() if line.strip()]
RECURSIVE CleanLines(_)
CleanLines(lines) ==
    IF lines = << >> THEN << >>
    ELSE IF Strip(Head(lines)) # NoText
         THEN <<Strip(Head(lines))>> \o CleanLines(Tail(lines))
         ELSE CleanLines(Tail(lines))

(***************************************************************************)
(* Initial state                                                           *)
(***************************************************************************)
NotReturned == <<"<no result>">>

Unborn ==
    [pc |-> "unborn", links_file |-> "", output_dir |-> "",
     read |-> << >>, file_lines |-> << >>, i |-> 0, download_url |-> NoText,
     emitted |-> << >>, attempts |-> << >>]

GuiInit ==
    /\ links_file_path = ""
    /\ output_directory_path = ""
    /\ log_text = << >>
    /\ after_queue = << >>
    /\ dialog = FALSE
    /\ cwd = "/home"
    /\ thread = [t \in Threads |-> Unborn]
    /\ steps = 0

Init ==
    /\ GuiInit
    /\ url_in = NoText
    /\ url_out = NotReturned

(***************************************************************************)
(* The UI thread                                                           *)
(***************************************************************************)
\* typing in the Entry bound to links_file_path: the field takes any text,
\* the empty one included
EditLinksEntry ==
    /\ ~dialog
    /\ \E text \in LinksChoices : links_file_path' = text
    /\ UNCHANGED <<output_directory_path, log_text, after_queue, dialog, cwd,
                   thread, steps, url_in, url_out>>

\* typing in the Entry bound to output_directory_path: the field takes any
\* text, the empty one included
EditOutputEntry ==
    /\ ~dialog
    /\ \E text \in OutputChoices : output_directory_path' = text
    /\ UNCHANGED <<links_file_path, log_text, after_queue, dialog, cwd,
                   thread, steps, url_in, url_out>>

\* askopenfilename returns an existing file, or "" when cancelled
browse_links_file ==
    /\ ~dialog
    /\ \E file_path \in LinksChoices :
          links_file_path' = IF file_path # "" THEN file_path
                             ELSE links_file_path
    /\ UNCHANGED <<output_directory_path, log_text, after_queue, dialog, cwd,
                   thread, steps, url_in, url_out>>

\* askdirectory returns a directory, or "" when cancelled
browse_output_directory ==
    /\ ~dialog
    /\ \E directory \in OutputChoices :
          output_directory_path' = IF directory # "" THEN directory
                                   ELSE output_directory_path
    /\ UNCHANGED <<links_file_path, log_text, after_queue, dialog, cwd,
                   thread, steps, url_in, url_out>>

\* the thread start_download would create next
NextThread == CHOOSE t \in Threads :
                 /\ thread[t].pc = "unborn"
                 /\ \A u \in Threads : u < t => thread[u].pc # "unborn"

\* start_download with the log cleared ahead of the validation
start_download_ClearsFirst ==
    /\ ~dialog
    /\ log_text' = << >>
    /\ LET links_file == links_file_path
           output_dir == output_directory_path
       IN  IF links_file = "" \/ output_dir = ""
           THEN /\ dialog' = TRUE
                /\ UNCHANGED thread
           ELSE /\ \E t \in Threads : thread[t].pc = "unborn"
                /\ thread' = [thread EXCEPT ![NextThread] =
                                 [@ EXCEPT !.pc = "chdir_app",
                                           !.links_file = links_file,
                                           !.output_dir = output_dir]]
                /\ UNCHANGED dialog
    /\ UNCHANGED <<links_file_path, output_directory_path, after_queue, cwd,
                   steps, url_in, url_out>>


start_download ==
    /\ ~dialog
    /\ LET links_file == links_file_path
           output_dir == output_directory_path
       IN  IF links_file = "" \/ output_dir = ""
           THEN /\ dialog' = TRUE
                /\ UNCHANGED <<log_text, thread>>
           ELSE /\ \E t \in Threads : thread[t].pc = "unborn"
                /\ log_text' = << >>
                /\ thread' = [thread EXCEPT ![NextThread] =
                                 [@ EXCEPT !.pc = "chdir_app",
                                           !.links_file = links_file,
                                           !.output_dir = output_dir]]
                /\ UNCHANGED dialog
    /\ UNCHANGED <<links_file_path, output_directory_path, after_queue, cwd,
                   steps, url_in, url_out>>

\* the user closes the showerror dialog; start_download returns
DismissDialog ==
    /\ dialog
    /\ dialog' = FALSE
    /\ UNCHANGED <<links_file_path, output_directory_path, log_text,
                   after_queue, cwd, thread, steps, url_in, url_out>>

\* the event loop runs the oldest pending update_log callback
update_log ==
    /\ after_queue # << >>
    /\ log_text' = Append(log_text, formatted_message(Head(after_queue)))
    /\ after_queue' = Tail(after_queue)
    /\ UNCHANGED <<links_file_path, output_directory_path, dialog, cwd,
                   thread, steps, url_in, url_out>>

(***************************************************************************)
(* A worker thread: google_drive_bulk_download                             *)
(*                                                                         *)
(* pc is the statement the thread is at.  A thread that has left the       *)
(* function is at the return it took ("ret_...") or, when an exception     *)
(* escaped the function, at the statement that raised it ("raised_...").   *)
(***************************************************************************)
\* a worker thread executes its next statement; the threads started and the
\* statements executed so far are within MaxSteps
Step ==
    /\ steps + Cardinality({t \in Threads : thread[t].pc # "unborn"}) < MaxSteps
    /\ steps' = steps + 1

\* self.log_message(call) by thread t, which then moves to pc
Log(t, call, pc) ==
    /\ after_queue' = Append(after_queue, call)
    /\ thread' = [thread EXCEPT ![t] =
                     [@ EXCEPT !.pc = pc, !.emitted = Append(@, call)]]

\* os.chdir(application_path); an OSError here is caught by nothing
ChdirApp(t) ==
    /\ thread[t].pc = "chdir_app"
    /\ Step
    /\ \E ok \in BOOLEAN :
          IF ok
          THEN /\ cwd' = application_path
               /\ thread' = [thread EXCEPT ![t].pc = "check_links"]
          ELSE /\ thread' = [thread EXCEPT ![t].pc = "raised_chdir_app"]
               /\ UNCHANGED cwd
    /\ UNCHANGED <<links_file_path, output_directory_path, log_text,
                   after_queue, dialog, url_in, url_out>>

\* links_path.is_file(): True, False, or an OSError that pathlib does not
\* take for "no such file" (name too long, permission denied) and that is
\* caught by nothing
CheckLinks(t) ==
    /\ thread[t].pc = "check_links"
    /\ Step
    /\ \E is_file \in {"True", "False", "OSError"} :
          IF is_file = "False"
          THEN Log(t, CallNoFile(thread[t].links_file), "ret_no_file")
          ELSE /\ thread' = [thread EXCEPT ![t].pc =
                                IF is_file = "True" THEN "set_output"
                                ELSE "raised_is_file"]
               /\ UNCHANGED after_queue
    /\ UNCHANGED <<links_file_path, output_directory_path, log_text, dialog,
                   cwd, url_in, url_out>>

\* output_path.mkdir(parents=True, exist_ok=True); os.chdir(output_path):
\* both succeed, or one raises an OSError, which the except clause logs, or
\* mkdir raises a ValueError (a NUL character in the path), which is caught
\* by nothing
SetOutputDir(t) ==
    /\ thread[t].pc = "set_output"
    /\ Step
    /\ \E outcome \in {"ok", "OSError", "ValueError"} :
          IF outcome = "ok"
          THEN /\ cwd' = thread[t].output_dir
               /\ thread' = [thread EXCEPT ![t].pc = "read_links"]
               /\ UNCHANGED after_queue
          ELSE IF outcome = "OSError"
          THEN /\ Log(t, CallOutputDir(thread[t].output_dir, outcome),
                      "ret_output_dir")
               /\ UNCHANGED cwd
          ELSE /\ thread' = [thread EXCEPT ![t].pc = "raised_output_dir"]
               /\ UNCHANGED <<after_queue, cwd>>
    /\ UNCHANGED <<links_file_path, output_directory_path, log_text, dialog,
                   url_in, url_out>>

\* open, readlines, the empty-list test and the "Started" message
ReadLinks(t) ==
    /\ thread[t].pc = "read_links"
    /\ Step
    /\ \E got \in ReadOutcomes :
          IF got.error # ""
          THEN Log(t, CallReadFailed(thread[t].links_file, got.error),
                   "ret_read_failed")
          ELSE LET file_lines == CleanLines(got.lines)
               IN  /\ after_queue' =
                         Append(after_queue,
                                IF file_lines = << >> THEN CallNoUrls
                                ELSE CallStarted)
                   /\ thread' = [thread EXCEPT ![t] =
                         [@ EXCEPT !.pc = IF file_lines = << >>
                                          THEN "ret_no_urls" ELSE "loop",
                                   !.read = got.lines,
                                   !.file_lines = file_lines,
                                   !.i = 1,
                                   !.emitted =
                                       Append(@, IF file_lines = << >>
                                                 THEN CallNoUrls
                                                 ELSE CallStarted)]]
    /\ UNCHANGED <<links_file_path, output_directory_path, log_text, dialog,
                   cwd, url_in, url_out>>

\* top of a loop iteration: normalise the URL and announce the download
LogDownloading(t) ==
    /\ thread[t].pc = "loop"
    /\ Step
    /\ thread[t].i <= Len(thread[t].file_lines)
    /\ LET download_url ==
               fix_google_drive_url(Strip(thread[t].file_lines[thread[t].i]))
           call == CallDownloading(thread[t].i, Len(thread[t].file_lines),
                                   download_url)
       IN  /\ after_queue' = Append(after_queue, call)
           /\ thread' = [thread EXCEPT ![t] =
                            [@ EXCEPT !.pc = "call_download",
                                      !.download_url = download_url,
                                      !.emitted = Append(@, call)]]
    /\ UNCHANGED <<links_file_path, output_directory_path, log_text, dialog,
                   cwd, url_in, url_out>>

\* download(url=download_url, quiet=False, fuzzy=True) is entered; what it
\* writes goes to the working directory of that moment
CallDownload(t) ==
    /\ thread[t].pc = "call_download"
    /\ Step
    /\ thread' = [thread EXCEPT ![t] =
                     [@ EXCEPT !.pc = "in_download",
                               !.attempts =
                                   Append(@, [url |-> thread[t].download_url,
                                              cwd |-> cwd,
                                              raised |-> "running"])]]
    /\ UNCHANGED <<links_file_path, output_directory_path, log_text,
                   after_queue, dialog, cwd, url_in, url_out>>

\* download returns or raises; the matching branch logs; next iteration
DownloadReturns(t) ==
    /\ thread[t].pc = "in_download"
    /\ Step
    /\ \E e \in DownloadOutcomes :
          LET call == OutcomeLog(e, thread[t].download_url)
          IN  /\ after_queue' = Append(after_queue, call)
              /\ thread' = [thread EXCEPT ![t] =
                               [@ EXCEPT !.pc = "loop",
                                         !.i = @ + 1,
                                         !.attempts[Len(thread[t].attempts)].raised = e,
                                         !.emitted = Append(@, call)]]
    /\ UNCHANGED <<links_file_path, output_directory_path, log_text, dialog,
                   cwd, url_in, url_out>>

\* LogFinished with the "Finished" call indented into the loop body
LogFinished_InsideLoop(t) ==
    /\ thread[t].pc = "loop"
    /\ Step
    /\ thread[t].i > 1
    /\ IF thread[t].i > Len(thread[t].file_lines)
       THEN Log(t, CallFinished, "ret_finished")
       ELSE Log(t, CallFinished, "loop")
    /\ UNCHANGED <<links_file_path, output_directory_path, log_text, dialog,
                   cwd, url_in, url_out>>

\* the loop is exhausted
LogFinished(t) ==
    /\ thread[t].pc = "loop"
    /\ Step
    /\ thread[t].i > Len(thread[t].file_lines)
    /\ Log(t, CallFinished, "ret_finished")
    /\ UNCHANGED <<links_file_path, output_directory_path, log_text, dialog,
                   cwd, url_in, url_out>>

Worker(t) ==
    \/ ChdirApp(t)
    \/ CheckLinks(t)
    \/ SetOutputDir(t)
    \/ ReadLinks(t)
    \/ LogDownloading(t)
    \/ CallDownload(t)
    \/ DownloadReturns(t)
    \/ LogFinished(t)

Next ==
    \/ EditLinksEntry
    \/ EditOutputEntry
    \/ browse_links_file
    \/ browse_output_directory
    \/ start_download
    \/ DismissDialog
    \/ update_log
    \/ \E t \in Threads : Worker(t)

Spec == Init /\ [][Next]_vars

(***************************************************************************)
(* fix_google_drive_url called on its own                                  *)
(***************************************************************************)
Https == <<"h", "t", "t", "p", "s", ":", "/", "/">>
ExampleHost == <<"e", "x", "a", "m", "p", "l", "e", ".", "c", "o", "m">>
FileId == <<"A", "B", "C">>
QueryU == <<"?", "u", "=">>

Segments == {DriveHost, ExampleHost, FileD, FileId, View, QueryU}

\* the texts made of at most n segments
RECURSIVE Texts(_)
Texts(n) ==
    IF n = 0 THEN {NoText}
    ELSE LET shorter == Texts(n - 1)
         IN  shorter \cup {p \o q : p \in shorter, q \in Segments}

\* the arguments tried: a scheme followed by at most MaxSegs segments
UrlInputs == {Https \o rest : rest \in Texts(MaxSegs)}

InitFix ==
    /\ GuiInit
    /\ url_in \in UrlInputs
    /\ url_out = NotReturned

CallFix ==
    /\ url_out = NotReturned
    /\ url_out' = fix_google_drive_url(url_in)
    /\ UNCHANGED <<gui_vars, url_in>>

NextFix == CallFix

SpecFix == InitFix /\ [][NextFix]_vars

(***************************************************************************)
(* C8: the reference normaliser the rewrite is claimed to equal            *)
(***************************************************************************)
\* index of the first occurrence of sub in s, or 0
IndexOf(s, sub) ==
    IF Contains(s, sub)
    THEN CHOOSE k \in 1 .. (Len(s) - Len(sub) + 1) :
            /\ SubSeq(s, k, k + Len(sub) - 1) = sub
            /\ \A j \in 1 .. (k - 1) : SubSeq(s, j, j + Len(sub) - 1) # sub
    ELSE 0

\* the text after the scheme separator
AfterScheme(url) ==
    LET k == IndexOf(url, <<":", "/", "/">>)
    IN  IF k = 0 THEN url ELSE SubSeq(url, k + 3, Len(url))

\* the authority of the URL: up to the first "/", "?" or "#"
RECURSIVE UpToDelimiter(_)
UpToDelimiter(s) ==
    IF s = NoText \/ Head(s) \in {"/", "?", "#"} THEN NoText
    ELSE <<Head(s)>> \o UpToDelimiter(Tail(s))

HostOf(url) == UpToDelimiter(AfterScheme(url))

EndsWith(s, suffix) ==
    /\ Len(s) >= Len(suffix)
    /\ SubSeq(s, Len(s) - Len(suffix) + 1, Len(s)) = suffix

StripTrailingView(url) ==
    IF EndsWith(url, View) THEN SubSeq(url, 1, Len(url) - Len(View)) ELSE url

ReferenceNormalize(url) ==
    IF HostOf(url) = DriveHost
    THEN StripTrailingView(Replace(url, FileD, UcId))
    ELSE url

\* C8: every call of fix_google_drive_url returns what the reference
\* normaliser returns: the rewrite when the host is drive.google.com, the
\* argument itself for every other URL.
C8_EqualsReference ==
    url_out # NotReturned => url_out = ReferenceNormalize(url_in)

(***************************************************************************)
(* Properties of the batch run                                             *)
(***************************************************************************)
EarlyReturns == {"ret_no_file", "ret_output_dir", "ret_read_failed", "ret_no_urls"}

\* the statements an uncaught exception can leave the function from
Raised == {"raised_chdir_app", "raised_is_file", "raised_output_dir"}

\* the thread has left google_drive_bulk_download
Ended(t) == thread[t].pc \in EarlyReturns \cup Raised \cup {"ret_finished"}

\* the thread is running google_drive_bulk_download
Alive(t) == thread[t].pc # "unborn" /\ ~Ended(t)

NonBlank(line) == line # NoText

\* the trimmed non-blank lines of what readlines() returned
TrimmedNonBlank(raw) ==
    SelectSeq([k \in 1 .. Len(raw) |-> Strip(raw[k])], NonBlank)

IsPrefix(p, q) == Len(p) <= Len(q) /\ SubSeq(q, 1, Len(p)) = p

Formatted(calls) == [k \in 1 .. Len(calls) |-> formatted_message(calls[k])]

\* C1: a run whose links file has the trimmed non-blank lines u_1..u_N,
\* N >= 1, calls download exactly N times, the k-th call on the rewrite of
\* u_k, whatever each call returns or raises: the calls made so far are the
\* first ones of that list, the run ends only through the final return, and
\* by then it has made all N.
C1_DownloadsInFileOrder ==
    \A t \in Threads :
        LET u == TrimmedNonBlank(thread[t].read)
            a == thread[t].attempts
        IN  /\ Len(a) <= Len(u)
            /\ \A k \in 1 .. Len(a) : a[k].url = fix_google_drive_url(u[k])
            /\ (Len(u) >= 1 /\ Ended(t)) =>
                   /\ thread[t].pc = "ret_finished"
                   /\ Len(a) = Len(u)

\* a run has ended after two downloads, the first of which raised, on a file
\* with a blank line and a line the rewrite changes
C1_Witness ==
    \E t \in Threads :
        /\ thread[t].pc = "ret_finished"
        /\ Len(thread[t].read) = 3
        /\ Len(thread[t].attempts) = 2
        /\ thread[t].attempts[1].raised = "ConnectionError"
        /\ thread[t].attempts[1].url # Strip(thread[t].read[1])

\* C2: a run that ends on a precondition failure (the links path is not an
\* existing file, the test for it raising included, the output directory
\* cannot be created or entered, the
\* links file cannot be read, there is no URL in it) has called download
\* zero times and has logged neither "Started" nor "Finished"; it has logged
\* its failure, at ERROR level, or at WARNING level for the empty list.
C2_PreconditionFailureAborts ==
    \A t \in Threads :
        thread[t].pc \in EarlyReturns \cup {"raised_is_file", "raised_output_dir"} =>
            /\ thread[t].attempts = << >>
            /\ \A k \in 1 .. Len(thread[t].emitted) :
                  /\ thread[t].emitted[k].message.text \notin
                         {MsgStarted.text, MsgFinished.text}
                  /\ formatted_message(thread[t].emitted[k]).level =
                         IF thread[t].pc = "ret_no_urls" THEN "WARNING"
                         ELSE "ERROR"
            /\ thread[t].emitted # << >>

FinishedAt(t) ==
    {k \in 1 .. Len(thread[t].emitted) :
        thread[t].emitted[k].message.text = MsgFinished.text}

\* C3: a run that reached the download loop and has ended logged "Finished"
\* exactly once, as its last message, after every download call of the run
\* had returned or raised; a run logs it at no other time, so a run that
\* did not reach the loop never logs it.
C3_FinishedOnceAfterLoop ==
    \A t \in Threads :
        /\ thread[t].pc = "ret_finished" =>
              /\ FinishedAt(t) = {Len(thread[t].emitted)}
              /\ thread[t].file_lines # << >>
              /\ Len(thread[t].attempts) = Len(thread[t].file_lines)
              /\ \A k \in 1 .. Len(thread[t].attempts) :
                    thread[t].attempts[k].raised # "running"
        /\ thread[t].pc # "ret_finished" => FinishedAt(t) = {}
        /\ (thread[t].file_lines # << >> /\ Ended(t)) =>
              thread[t].pc = "ret_finished"

\* a run has logged "Finished" after a download that raised MissingSchema
C3_Witness ==
    \E t \in Threads :
        /\ thread[t].pc = "ret_finished"
        /\ FinishedAt(t) # {}
        /\ \E k \in 1 .. Len(thread[t].attempts) :
              thread[t].attempts[k].raised = "MissingSchema"

ItemFailures(t) ==
    {k \in 1 .. Len(thread[t].attempts) :
        thread[t].attempts[k].raised \notin {NoException, "running"}}

ItemErrorsLogged(t) ==
    {k \in 1 .. Len(thread[t].emitted) :
        /\ thread[t].emitted[k].level = "ERROR"
        /\ thread[t].emitted[k].message.text \in
               {"Invalid URL format", "Network error while downloading",
                "Unexpected error while downloading"}}

\* C4: every failure of a run produces exactly one log entry: a run that
\* ended on a precondition failure, the failure of the initial change of
\* directory included, has logged exactly one entry, and a run has logged
\* one ERROR entry per download that raised.
C4_EveryFailureLogged ==
    \A t \in Threads :
        /\ thread[t].pc \in EarlyReturns \cup Raised =>
              Len(thread[t].emitted) = 1
        /\ Cardinality(ItemErrorsLogged(t)) = Cardinality(ItemFailures(t))

\* C5: at most one worker thread is running the batch at any time.
C5_AtMostOneActive ==
    Cardinality({t \in Threads : Alive(t)}) <= 1

\* C6: every download call of a run is made with the run's output directory
\* as the working directory, and the working directory stays there while
\* the call is in progress.
C6_DownloadsInOutputDir ==
    \A t \in Threads :
        /\ \A k \in 1 .. Len(thread[t].attempts) :
              thread[t].attempts[k].cwd = thread[t].output_dir
        /\ thread[t].pc = "in_download" => cwd = thread[t].output_dir

\* C7: while a run is active no entry leaves the log panel: every step taken
\* while some worker is running keeps the panel's lines and at most appends.
C7_PanelKeepsEntries ==
    [][(\E t \in Threads : Alive(t)) => IsPrefix(log_text, log_text')]_vars

\* C9: start_download with an empty field opens the error dialog and leaves
\* the log panel, the threads and everything else as they were; with both
\* fields filled it empties the log panel and starts exactly one thread, on
\* the values of the two fields, and touches nothing else.
C9_StartDownloadFrame ==
    [][start_download =>
         IF links_file_path = "" \/ output_directory_path = ""
         THEN /\ dialog'
              /\ UNCHANGED <<links_file_path, output_directory_path, log_text,
                             after_queue, cwd, thread, steps>>
         ELSE /\ log_text' = << >>
              /\ \E t \in Threads :
                    /\ thread[t].pc = "unborn"
                    /\ thread'[t] = [thread[t] EXCEPT
                                        !.pc = "chdir_app",
                                        !.links_file = links_file_path,
                                        !.output_dir = output_directory_path]
                    /\ \A u \in Threads \ {t} : thread'[u] = thread[u]
              /\ UNCHANGED <<links_file_path, output_directory_path,
                             after_queue, cwd, dialog, steps>>]_vars

\* the dialog is open because the output field is empty, the links field
\* being filled, over a log panel that kept the lines of an earlier run
C9_Witness ==
    /\ dialog
    /\ links_file_path # ""
    /\ output_directory_path = ""
    /\ log_text # << >>
    /\ \E t \in Threads : thread[t].pc # "unborn"

\* the entry the log panel is to show for the outcome of a download
ExpectedOutcome(raised, url) ==
    IF raised = NoException
    THEN [level |-> "INFO", message |-> MsgCompleted]
    ELSE IF raised = "MissingSchema"
    THEN [level |-> "ERROR", message |-> MsgInvalidUrl(url)]
    ELSE IF "RequestException" \in ExceptionBases[raised]
    THEN [level |-> "ERROR", message |-> MsgNetwork(url, raised)]
    ELSE [level |-> "ERROR", message |-> MsgUnexpected(url, raised)]

OnlyRun(t) == \A u \in Threads \ {t} : thread[u].pc = "unborn"

\* C10: while a single run is the only one ever started, the log panel
\* followed by the pending callbacks is what the run logged, in order; once
\* the run has finished N URLs and the callbacks have run, the panel holds
\* 2N+2 lines: "Started", then for each i the "Downloading [i/N]" line and
\* the one outcome line of item i (success, invalid URL for MissingSchema,
\* network for the other transport errors, unexpected otherwise), then
\* "Finished".
C10_PanelShowsRunInOrder ==
    \A t \in Threads :
        OnlyRun(t) =>
            /\ log_text \o Formatted(after_queue) = Formatted(thread[t].emitted)
            /\ (thread[t].pc = "ret_finished" /\ after_queue = << >>) =>
                  LET n == Len(thread[t].file_lines)
                  IN  /\ Len(log_text) = 2 * n + 2
                      /\ log_text[1] = [level |-> "INFO", message |-> MsgStarted]
                      /\ \A i \in 1 .. n :
                            /\ log_text[2 * i] =
                                  [level |-> "INFO",
                                   message |-> MsgDownloading(i, n,
                                       fix_google_drive_url(thread[t].file_lines[i]))]
                            /\ log_text[2 * i + 1] =
                                  ExpectedOutcome(thread[t].attempts[i].raised,
                                                  thread[t].attempts[i].url)
                      /\ log_text[2 * n + 2] =
                            [level |-> "INFO", message |-> MsgFinished]

\* the only run has finished two URLs, one MissingSchema and one
\* ConnectionError, and the panel has received all its lines
C10_Witness ==
    /\ OnlyRun(1)
    /\ thread[1].pc = "ret_finished"
    /\ after_queue = << >>
    /\ Len(log_text) = 6
    /\ thread[1].attempts[1].raised = "MissingSchema"
    /\ thread[1].attempts[2].raised = "ConnectionError"

====
